---- MODULE Spec2Model ----
(***************************************************************************)
(* microdrum-marl: the control-loop and evaluation layer of microutils.py. *)
(*                                                                         *)
(* Numbers.  The program computes in floating point; the model computes    *)
(* exactly, in integers, in fixed units:                                   *)
(*   power, setpoint, history powers : hundredths of nominal power, so     *)
(*       obs["power"] = 1.2 is 120 and obs["power"]*100 (SPU) is the same  *)
(*       integer;                                                          *)
(*   gains, max_rate, commands       : thousandths, so the default gains   *)
(*       (.078, 0, 0.3, 1) are (78, 0, 300, 1000);                         *)
(*   drum angles                     : tenths of a degree (77.8 is 778);   *)
(*   metrics                         : hundredths (sums of power errors).  *)
(* Rounding, overflow to inf and NaN are outside the model.                *)
(***************************************************************************)
EXTENDS Integers, Sequences, FiniteSets, TLC

VARIABLES
    prog,        \* the function being executed
    pc,          \* its position
    arg,         \* its arguments
    controller,  \* the PIDController instance (self.*)
    env,         \* the environment collaborator's state
    obs,         \* local variable obs of the loops
    done,        \* local variable done of the loops
    log,         \* the calls made so far, in order, with what they returned
    ret          \* what the function returned or raised

vars == <<prog, pc, arg, controller, env, obs, done, log, ret>>

Nil == [kind |-> "none"]
Return(v) == [kind |-> "return", value |-> v]
Raise(exc, msg) == [kind |-> "raise", exc |-> exc, message |-> msg]

Abs(x) == IF x < 0 THEN -x ELSE x
Min(a, b) == IF a <= b THEN a ELSE b
Max(a, b) == IF a >= b THEN a ELSE b

(***************************************************************************)
(* Bounds of the model.                                                    *)
(***************************************************************************)
MaxCalls == 3        \* update calls made on one controller

(***************************************************************************)
(* class PIDController                                                     *)
(***************************************************************************)
\* np.clip(a, a_min, a_max) = minimum(maximum(a, a_min), a_max)
NoClip(a, a_min, a_max) == a
Clip(a, a_min, a_max) == Min(Max(a, a_min), a_max)

\* PIDController.__init__
PIDController(Kp, Ki, Kd, max_rate) ==
    [Kp |-> Kp, Ki |-> Ki, Kd |-> Kd, max_rate |-> max_rate,
     integral |-> 0, err_prev |-> 0, t_prev |-> 0, deriv_prev |-> 0]

\* PIDController.update: the instance after the call (del_t = 1)
UpdateIntegratesError(self, measurement, setpoint) ==
    LET err == setpoint - measurement
    IN  [self EXCEPT !.integral = self.integral + err,
                     !.deriv_prev = err - self.err_prev,
                     !.err_prev = err]
UpdateAntiWindup(self, measurement, setpoint) ==
    LET err == setpoint - measurement
        integral == self.integral + self.Ki * err
        command == self.Kp * err + integral + self.Kd * (err - self.err_prev)
    IN  [self EXCEPT !.integral = IF Abs(command) > self.max_rate
                                  THEN self.integral ELSE integral,
                     !.deriv_prev = err - self.err_prev,
                     !.err_prev = err]
UpdateKeepsErrPrevWhenClipped(self, measurement, setpoint) ==
    LET err == setpoint - measurement
        integral == self.integral + self.Ki * err
        command == self.Kp * err + integral + self.Kd * (err - self.err_prev)
    IN  [self EXCEPT !.integral = integral,
                     !.deriv_prev = err - self.err_prev,
                     !.err_prev = IF Abs(command) > self.max_rate
                                  THEN self.err_prev ELSE err]
UpdateSelf(self, measurement, setpoint) ==
    LET err == setpoint - measurement
        del_t == 1
    IN  [self EXCEPT !.integral = self.integral + self.Ki * err * del_t,
                     !.deriv_prev = (err - self.err_prev) \div del_t,
                     !.err_prev = err]

\* PIDController.update: the unclipped command, read off the updated instance
Command(self, measurement, setpoint) ==
    LET err == setpoint - measurement
        new == UpdateSelf(self, measurement, setpoint)
    IN  new.Kp * err + new.integral + new.Kd * new.deriv_prev

\* PIDController.update: the value returned
UpdateResult(self, measurement, setpoint) ==
    Clip(Command(self, measurement, setpoint), -self.max_rate, self.max_rate)

UpdateCall(measurement, setpoint, command_sat) ==
    [op |-> "update", measurement |-> measurement, setpoint |-> setpoint,
     command_sat |-> command_sat]

(***************************************************************************)
(* Run histories: a table is a sequence of rows                            *)
(*   [time, desired_power, actual_power, drums], drums[j] being drum_j.    *)
(* Python's row 0 is row 1 here.                                           *)
(***************************************************************************)
NumDrums == 8
SteadyPower == 100   \* desired_power 1, in hundredths
SteadyDrum == 778    \* drum angle 77.8, in tenths

Row(time, desired_power, actual_power, drums) ==
    [time |-> time, desired_power |-> desired_power,
     actual_power |-> actual_power, drums |-> drums]

RECURSIVE SumSeq(_)
SumSeq(s) == IF s = <<>> THEN 0 ELSE Head(s) + SumSeq(Tail(s))

\* np.abs(history['desired_power'] - history['actual_power'])
SignedError(history) ==
    [i \in DOMAIN history |-> history[i].desired_power - history[i].actual_power]
AbsoluteError(history) ==
    [i \in DOMAIN history |-> Abs(history[i].desired_power - history[i].actual_power)]

\* np.abs(np.diff(drum_angles, axis=0)), summed over the 8 columns of each row pair
AbsoluteDrumSpeedsButLast(history) ==
    [i \in 1..(Len(history) - 1) |->
        SumSeq([j \in 1..(NumDrums - 1) |->
                   Abs(history[i + 1].drums[j] - history[i].drums[j])])]
AbsoluteDrumSpeeds(history) ==
    [i \in 1..(Len(history) - 1) |->
        SumSeq([j \in 1..NumDrums |->
                   Abs(history[i + 1].drums[j] - history[i].drums[j])])]

\* history['time'][1] - history['time'][0] == 1
PositiveTimestep(history) == history[2].time - history[1].time >= 1
UnitTimestep(history) == history[2].time - history[1].time = 1

\* calc_metrics; the mean is the fraction num/den
CalcMetrics(history) ==
    IF Len(history) < 2
    THEN Raise("KeyError", [text |-> "1"])
    ELSE IF ~UnitTimestep(history)
    THEN Raise("AssertionError",
               [text |-> "metric calculations assume 1 second timesteps"])
    ELSE LET absolute_error == AbsoluteError(history)
         IN  Return([mean_absolute_error |->
                         [num |-> SumSeq(absolute_error), den |-> Len(history)],
                     integral_absolute_error |-> SumSeq(absolute_error),
                     control_effort |-> SumSeq(AbsoluteDrumSpeeds(history))])

(***************************************************************************)
(* The environment collaborators (module envs, PettingZoo's AEC wrapper)   *)
(* are not part of the sources: they are modelled from the interface the   *)
(* loops use, every answer a nondeterministic choice.                      *)
(***************************************************************************)
EpisodeLength == 3   \* the step budget after which a step reports truncated
NumAgents == 2       \* agents of the turn-based environment

Powers == {100, 120, 130}
Profiles == {"flat", "ramp"}
PolicyActions == {0, 1000}

\* single_env.profile(t)
ProfileAt(profile, t) == IF profile = "flat" THEN 100 ELSE 100 - 10 * Min(t, EpisodeLength)

SteadyDrums == [j \in 1..NumDrums |-> SteadyDrum]

\* the environment as constructed, before any reset
SingleEnv(profile) == [profile |-> profile, time |-> 0, history |-> <<>>]

\* env.reset(): a new episode, whose history starts with the initial row
EnvReset(e, power) ==
    [e EXCEPT !.time = 0,
              !.history = <<Row(0, ProfileAt(e.profile, 0), power, SteadyDrums)>>]

\* what env.step may answer
EnvStepOutcomes(e) ==
    {[power |-> power, terminated |-> terminated, truncated |-> truncated] :
        power \in Powers, terminated \in BOOLEAN,
        truncated \in IF e.time + 1 >= EpisodeLength THEN {TRUE} ELSE BOOLEAN}

\* env.step(action): one more second, one more row
EnvStep(e, outcome) ==
    [e EXCEPT !.time = e.time + 1,
              !.history = Append(e.history,
                                 Row(e.time + 1, ProfileAt(e.profile, e.time + 1),
                                     outcome.power, SteadyDrums))]

Agents == 1..NumAgents
AgentFlags == [Agents -> [terminated : BOOLEAN, truncated : BOOLEAN]]

\* the turn-based environment as constructed
AecEnv == [agent_selection |-> 1, turns |-> 0,
           flags |-> [a \in Agents |-> [terminated |-> FALSE, truncated |-> FALSE]]]

\* what each agent's last() reports after a reset or a step
AecOutcomes(e) ==
    IF e.turns >= EpisodeLength
    THEN {[a \in Agents |-> [terminated |-> f[a].terminated, truncated |-> TRUE]] :
             f \in AgentFlags}
    ELSE AgentFlags

\* env.reset()
AecReset(e, flags) == [agent_selection |-> 1, turns |-> 0, flags |-> flags]

\* env.step(action): the turn passes to the next agent
AecStep(e, flags) ==
    [agent_selection |-> (e.agent_selection % NumAgents) + 1,
     turns |-> e.turns + 1, flags |-> flags]

ResetCall == [op |-> "reset"]
RenderCall == [op |-> "render"]
StepCall(action, outcome) ==
    [op |-> "step", action |-> action, power |-> outcome.power,
     terminated |-> outcome.terminated, truncated |-> outcome.truncated]
PredictCall(kwargs, action) ==
    [op |-> "predict", deterministic |-> kwargs.deterministic, action |-> action]
LastCall(agent, flags) ==
    [op |-> "last", agent |-> agent, terminated |-> flags.terminated,
     truncated |-> flags.truncated]
AecStepCall(action) == [op |-> "step", action |-> action]
MetricsCall == [op |-> "calc_metrics"]

\* Inputs of the controller on its own.
Gains == {-1, 0, 2}
Rates == {0, 1, 3}
Measurements == {0, 2}
Setpoints == {-3, 0, 4}

InitPID ==
    /\ prog = "PIDController"
    /\ pc = "ready"
    /\ arg = Nil
    /\ controller \in {PIDController(Kp, Ki, Kd, max_rate) :
                          Kp \in Gains, Ki \in Gains, Kd \in Gains, max_rate \in Rates}
    /\ env = Nil
    /\ obs = Nil
    /\ done = FALSE
    /\ log = <<>>
    /\ ret = Nil

\* one call controller.update(measurement, setpoint)
Update ==
    /\ prog = "PIDController"
    /\ Len(log) < MaxCalls
    /\ \E measurement \in Measurements, setpoint \in Setpoints :
          LET command_sat == UpdateResult(controller, measurement, setpoint)
          IN  /\ controller' = UpdateSelf(controller, measurement, setpoint)
              /\ log' = Append(log, UpdateCall(measurement, setpoint, command_sat))
              /\ ret' = Return(command_sat)
    /\ UNCHANGED <<prog, pc, arg, env, obs, done>>

NextPID == Update

SpecPID == InitPID /\ [][NextPID]_vars

UpdateCalls == {i \in DOMAIN log : log[i].op = "update"}

\* the command before clipping, as the updated instance holds it
RawCommand == controller.Kp * controller.err_prev + controller.integral
                 + controller.Kd * controller.deriv_prev

(***************************************************************************)
(* C1. Every control signal update returns lies in [-max_rate, +max_rate]  *)
(* (max_rate >= 0), whatever the accumulator and previous error have       *)
(* reached.                                                                *)
(***************************************************************************)
C1_OutputWithinRate ==
    prog = "PIDController" =>
        \A i \in UpdateCalls :
            /\ log[i].command_sat >= -controller.max_rate
            /\ log[i].command_sat <= controller.max_rate

\* an accumulator beyond the rate limit, a command beyond it, a clipped output
C1_Witness ==
    /\ prog = "PIDController"
    /\ Len(log) = MaxCalls
    /\ controller.integral > controller.max_rate
    /\ RawCommand > controller.max_rate
    /\ controller.max_rate > 0
    /\ ret = Return(controller.max_rate)

(***************************************************************************)
(* C9. With Ki = 0 and Kd = 0 every call returns                           *)
(* clamp(Kp*(s-m), -max_rate, +max_rate), whatever calls came before.      *)
(***************************************************************************)
Clamp(x, lo, hi) == IF x < lo THEN lo ELSE IF x > hi THEN hi ELSE x

C9_PureProportional ==
    (prog = "PIDController" /\ controller.Ki = 0 /\ controller.Kd = 0) =>
        \A i \in UpdateCalls :
            log[i].command_sat =
                Clamp(controller.Kp * (log[i].setpoint - log[i].measurement),
                      -controller.max_rate, controller.max_rate)

\* a third call after two calls with other errors, not clipped
C9_Witness ==
    /\ prog = "PIDController"
    /\ controller.Ki = 0 /\ controller.Kd = 0 /\ controller.Kp # 0
    /\ Len(log) >= 3
    /\ log[1].setpoint - log[1].measurement # log[3].setpoint - log[3].measurement
    /\ log[2].setpoint - log[2].measurement # log[3].setpoint - log[3].measurement
    /\ log[3].command_sat # 0
    /\ Abs(log[3].command_sat) < controller.max_rate

\* the error of the i-th call, 0 before the first
ErrorOf(i) == IF i = 0 THEN 0 ELSE log[i].setpoint - log[i].measurement

RECURSIVE ErrorSum(_)
ErrorSum(n) == IF n = 0 THEN 0 ELSE ErrorSum(n - 1) + ErrorOf(n)

\* the command of the i-th call before clipping, from the errors so far
CommandOf(i) ==
    controller.Kp * ErrorOf(i) + controller.Ki * ErrorSum(i)
        + controller.Kd * (ErrorOf(i) - ErrorOf(i - 1))

(***************************************************************************)
(* C16. After n update calls with errors e_1..e_n on a fresh controller    *)
(* the integral accumulator is Ki * (e_1 + ... + e_n): no call resets or   *)
(* limits it, a call whose output was clipped included.                    *)
(***************************************************************************)
C16_IntegralIsKiTimesErrorSum ==
    prog = "PIDController" =>
        controller.integral = controller.Ki * ErrorSum(Len(log))

\* three calls, the second one clipped, an accumulator beyond the rate limit
C16_Witness ==
    /\ prog = "PIDController"
    /\ Len(log) = 3
    /\ controller.Ki # 0
    /\ Abs(CommandOf(2)) > controller.max_rate
    /\ Abs(log[2].command_sat) = controller.max_rate
    /\ ErrorOf(3) # 0
    /\ Abs(controller.integral) > controller.max_rate
    /\ controller.integral = controller.Ki * (ErrorOf(1) + ErrorOf(2) + ErrorOf(3))

(***************************************************************************)
(* C17. Every update call, clipped or not, leaves previous_error at its    *)
(* own error and the derivative at error - previous call's error (0 before *)
(* the first call); the command it clips is                                *)
(* Kp*error + integral_accumulator + Kd*derivative.                        *)
(***************************************************************************)
C17_ErrorDerivativeCommand ==
    (prog = "PIDController" /\ log # <<>>) =>
        LET n == Len(log)
        IN  /\ controller.err_prev = ErrorOf(n)
            /\ controller.deriv_prev = ErrorOf(n) - ErrorOf(n - 1)
            /\ RawCommand = controller.Kp * ErrorOf(n) + controller.integral
                               + controller.Kd * (ErrorOf(n) - ErrorOf(n - 1))
            /\ \A i \in 1..n :
                  log[i].command_sat =
                      Clamp(CommandOf(i), -controller.max_rate, controller.max_rate)

\* a clipped call, then a call with another error whose output is not clipped
C17_Witness ==
    /\ prog = "PIDController"
    /\ Len(log) >= 2
    /\ controller.Kd # 0
    /\ Abs(CommandOf(Len(log) - 1)) > controller.max_rate
    /\ ErrorOf(Len(log)) # ErrorOf(Len(log) - 1)
    /\ ErrorOf(Len(log) - 1) # 0
    /\ Abs(CommandOf(Len(log))) < controller.max_rate
    /\ ret = Return(CommandOf(Len(log)))
    /\ ret.value # 0

(***************************************************************************)
(* The control loops: pid_loop, rl_control_loop, marl_control_loop and     *)
(* tune_pid's pid_objective.  One action per iteration of a loop: the      *)
(* calls it makes are logged in the order the code makes them.             *)
(***************************************************************************)
DefaultKp == 78
DefaultKi == 0
DefaultKd == 300
DefaultMaxRate == 1000
TripPower == 120       \* obs['power'] > 1.2
PenaltyFactor == 1000  \* 1_000 * obs['power']

\* params the optimizer may try: its starting point [0.08, 0, 0.3], the
\* corners of its bounds
ObjectiveParams == {<<80, 0, 300>>, <<0, 0, 0>>, <<5000, 5000, 5000>>}

\* the calls the function has made so far, by position in the log
Calls(op) == {i \in DOMAIN log : log[i].op = op}
StepDone(i) == log[i].terminated \/ log[i].truncated
LastStep == CHOOSE i \in Calls("step") : \A j \in Calls("step") : j <= i

MaxObjectiveCalls == 2   \* calls of pid_objective one minimize makes

\* one call of pid_objective by minimize: its params, which call it is, and
\* how the call before it ended ("none", "trip" by the early return, "iae")
ObjectiveArg(params, call, before) ==
    [params |-> params, call |-> call, before |-> before]

LoopProgs == {"pid_loop", "rl_control_loop", "marl_control_loop", "pid_objective"}

InitLoops ==
    /\ prog \in LoopProgs
    /\ pc = "reset"
    /\ arg \in IF prog = "pid_objective"
               THEN {ObjectiveArg(params, 1, "none") : params \in ObjectiveParams}
               ELSE {Nil}
    /\ controller = Nil
    /\ env \in IF prog = "marl_control_loop"
               THEN {AecEnv}
               ELSE {SingleEnv(profile) : profile \in Profiles}
    /\ obs = Nil
    /\ done = FALSE
    /\ log = <<>>
    /\ ret = Nil

\* if terminated or truncated: done = True
DoneOnTerminatedOnly(was_done, terminated, truncated) ==
    IF terminated THEN TRUE ELSE was_done
PidLoopDone(was_done, terminated, truncated) ==
    IF terminated \/ truncated THEN TRUE ELSE was_done
RlLoopDone(was_done, terminated, truncated) ==
    IF terminated \/ truncated THEN TRUE ELSE was_done
ObjectiveDone(was_done, terminated, truncated) ==
    IF terminated \/ truncated THEN TRUE ELSE was_done

\* pid_loop: controller = PIDController(); obs, _ = single_env.reset(); done = False
PidLoopReset ==
    /\ prog = "pid_loop" /\ pc = "reset"
    /\ controller' = PIDController(DefaultKp, DefaultKi, DefaultKd, DefaultMaxRate)
    /\ \E power \in Powers :
          /\ env' = EnvReset(env, power)
          /\ obs' = [power |-> power]
    /\ done' = FALSE
    /\ log' = Append(log, ResetCall)
    /\ pc' = "while"
    /\ UNCHANGED <<prog, arg, ret>>

\* pid_loop with an iteration that calls controller.update twice
PidLoopIterUpdatesTwice ==
    /\ prog = "pid_loop" /\ pc = "while" /\ ~done
    /\ LET measurement == obs.power
           setpoint == ProfileAt(env.profile, env.time + 1)
           first == UpdateResult(controller, measurement, setpoint)
           once == UpdateSelf(controller, measurement, setpoint)
           action == UpdateResult(once, measurement, setpoint)
       IN  /\ controller' = UpdateSelf(once, measurement, setpoint)
           /\ \E outcome \in EnvStepOutcomes(env) :
                 /\ env' = EnvStep(env, outcome)
                 /\ obs' = [power |-> outcome.power]
                 /\ done' = PidLoopDone(done, outcome.terminated, outcome.truncated)
                 /\ log' = log \o <<UpdateCall(measurement, setpoint, first),
                                    UpdateCall(measurement, setpoint, action),
                                    StepCall(action, outcome)>>
    /\ UNCHANGED <<prog, pc, arg, ret>>

\* pid_loop: one iteration of while not done
PidLoopIter ==
    /\ prog = "pid_loop" /\ pc = "while" /\ ~done
    /\ LET measurement == obs.power
           setpoint == ProfileAt(env.profile, env.time + 1)
           action == UpdateResult(controller, measurement, setpoint)
       IN  /\ controller' = UpdateSelf(controller, measurement, setpoint)
           /\ \E outcome \in EnvStepOutcomes(env) :
                 /\ env' = EnvStep(env, outcome)
                 /\ obs' = [power |-> outcome.power]
                 /\ done' = PidLoopDone(done, outcome.terminated, outcome.truncated)
                 /\ log' = log \o <<UpdateCall(measurement, setpoint, action),
                                    StepCall(action, outcome)>>
    /\ UNCHANGED <<prog, pc, arg, ret>>

\* pid_loop: single_env.render() after the loop
PidLoopRender ==
    /\ prog = "pid_loop" /\ pc = "while" /\ done
    /\ log' = Append(log, RenderCall)
    /\ pc' = "returned"
    /\ ret' = Return("None")
    /\ UNCHANGED <<prog, arg, controller, env, obs, done>>

\* model.predict(obs, deterministic=True)
StochasticPredict == [deterministic |-> FALSE]
RlPredictKwargs == [deterministic |-> TRUE]
MarlPredictKwargs == [deterministic |-> TRUE]

\* rl_control_loop: obs, _ = env.reset(); done = False
RlLoopReset ==
    /\ prog = "rl_control_loop" /\ pc = "reset"
    /\ \E power \in Powers :
          /\ env' = EnvReset(env, power)
          /\ obs' = [power |-> power]
    /\ done' = FALSE
    /\ log' = Append(log, ResetCall)
    /\ pc' = "while"
    /\ UNCHANGED <<prog, arg, controller, ret>>

\* rl_control_loop: one iteration of while not done
RlLoopIter ==
    /\ prog = "rl_control_loop" /\ pc = "while" /\ ~done
    /\ \E action \in PolicyActions, outcome \in EnvStepOutcomes(env) :
          /\ env' = EnvStep(env, outcome)
          /\ obs' = [power |-> outcome.power]
          /\ done' = RlLoopDone(done, outcome.terminated, outcome.truncated)
          /\ log' = log \o <<PredictCall(RlPredictKwargs, action),
                             StepCall(action, outcome)>>
    /\ UNCHANGED <<prog, pc, arg, controller, ret>>

\* rl_control_loop: env.render() after the loop
RlLoopRender ==
    /\ prog = "rl_control_loop" /\ pc = "while" /\ done
    /\ log' = Append(log, RenderCall)
    /\ pc' = "returned"
    /\ ret' = Return("None")
    /\ UNCHANGED <<prog, arg, controller, env, obs, done>>

\* marl_control_loop: env = parallel_to_aec(env); env.reset()
MarlReset ==
    /\ prog = "marl_control_loop" /\ pc = "reset"
    /\ \E flags \in AecOutcomes(env) : env' = AecReset(env, flags)
    /\ log' = Append(log, ResetCall)
    /\ pc' = "for"
    /\ UNCHANGED <<prog, arg, controller, obs, done, ret>>

\* if terminated or truncated: break
BreakOnTruncatedOnly(terminated, truncated) == truncated
MarlBreak(terminated, truncated) == terminated \/ truncated

\* break leaves the for statement; what follows it is env.render()
ContinueAfterBreak == "for"
MarlAfterBreak == "render"

\* marl_control_loop: one turn of for agent in env.agent_iter()
MarlTurn ==
    /\ prog = "marl_control_loop" /\ pc = "for"
    /\ LET agent == env.agent_selection
           last == env.flags[agent]
       IN  IF MarlBreak(last.terminated, last.truncated)
           THEN /\ log' = Append(log, LastCall(agent, last))
                /\ pc' = MarlAfterBreak
                /\ UNCHANGED env
           ELSE /\ \E action \in PolicyActions, flags \in AecOutcomes(AecStep(env, env.flags)) :
                      /\ env' = AecStep(env, flags)
                      /\ log' = log \o <<LastCall(agent, last),
                                         PredictCall(MarlPredictKwargs, action),
                                         AecStepCall(action)>>
                /\ pc' = "for"
    /\ UNCHANGED <<prog, arg, controller, obs, done, ret>>

\* marl_control_loop: env.render() after the loop
MarlRender ==
    /\ prog = "marl_control_loop" /\ pc = "render"
    /\ log' = Append(log, RenderCall)
    /\ pc' = "returned"
    /\ ret' = Return("None")
    /\ UNCHANGED <<prog, arg, controller, env, obs, done>>

\* if obs['power'] > 1.2
TrippedAtThreshold(power) == power >= TripPower
Tripped(power) == power > TripPower

\* fake_iae = 1_000 * obs['power'].item(), in hundredths
FakeIaeOfThreshold(power) == PenaltyFactor * TripPower
FakeIae(power) == PenaltyFactor * power

\* pid_objective with the controller of the call before, given the new gains
ObjectiveResetKeepsController ==
    /\ prog = "pid_objective" /\ pc = "reset"
    /\ controller' = IF controller = Nil
                     THEN PIDController(arg.params[1], arg.params[2], arg.params[3],
                                        DefaultMaxRate)
                     ELSE [controller EXCEPT !.Kp = arg.params[1],
                                             !.Ki = arg.params[2],
                                             !.Kd = arg.params[3]]
    /\ \E power \in Powers :
          /\ env' = EnvReset(env, power)
          /\ obs' = [power |-> power]
    /\ done' = FALSE
    /\ log' = Append(log, ResetCall)
    /\ pc' = "while"
    /\ UNCHANGED <<prog, arg, ret>>

\* pid_objective: controller = PIDController(p_gain, i_gain, d_gain);
\* obs, _ = holos_env.reset(); done = False
ObjectiveReset ==
    /\ prog = "pid_objective" /\ pc = "reset"
    /\ controller' = PIDController(arg.params[1], arg.params[2], arg.params[3], DefaultMaxRate)
    /\ \E power \in Powers :
          /\ env' = EnvReset(env, power)
          /\ obs' = [power |-> power]
    /\ done' = FALSE
    /\ log' = Append(log, ResetCall)
    /\ pc' = "while"
    /\ UNCHANGED <<prog, arg, ret>>

\* pid_objective: one iteration of while not done, with its early return
ObjectiveIter ==
    /\ prog = "pid_objective" /\ pc = "while" /\ ~done
    /\ LET measurement == obs.power
           setpoint == ProfileAt(env.profile, env.time + 1)
           action == UpdateResult(controller, measurement, setpoint)
       IN  /\ controller' = UpdateSelf(controller, measurement, setpoint)
           /\ \E outcome \in EnvStepOutcomes(env) :
                 /\ env' = EnvStep(env, outcome)
                 /\ obs' = [power |-> outcome.power]
                 /\ done' = ObjectiveDone(done, outcome.terminated, outcome.truncated)
                 /\ log' = log \o <<UpdateCall(measurement, setpoint, action),
                                    StepCall(action, outcome)>>
                 /\ IF Tripped(outcome.power)
                    THEN /\ pc' = "returned"
                         /\ ret' = Return(FakeIae(outcome.power))
                    ELSE UNCHANGED <<pc, ret>>
    /\ UNCHANGED <<prog, arg>>

\* pid_objective: holos_env.render(); _, iae, _ = calc_metrics(...); return iae
ObjectiveFinish ==
    /\ prog = "pid_objective" /\ pc = "while" /\ done
    /\ log' = log \o <<RenderCall, MetricsCall>>
    /\ LET metrics == CalcMetrics(env.history)
       IN  ret' = IF metrics.kind = "raise"
                  THEN metrics
                  ELSE Return(metrics.value.integral_absolute_error)
    /\ pc' = "returned"
    /\ UNCHANGED <<prog, arg, controller, env, obs, done>>

\* minimize(pid_objective, ...): the optimizer calls the objective again, on
\* the environment instance the call before left behind
ObjectiveCall ==
    /\ prog = "pid_objective" /\ pc = "returned"
    /\ ret.kind = "return"
    /\ arg.call < MaxObjectiveCalls
    /\ \E params \in ObjectiveParams :
          arg' = ObjectiveArg(params, arg.call + 1,
                              IF Calls("render") = {} THEN "trip" ELSE "iae")
    /\ log' = <<>>
    /\ pc' = "reset"
    /\ ret' = Nil
    /\ UNCHANGED <<prog, controller, env, obs, done>>

(***************************************************************************)
(* A call of a collaborator may raise instead of returning.  The loops     *)
(* hold no try statement: the exception leaves the function at once.       *)
(***************************************************************************)
FaultCall(call) == [op |-> "raise", call |-> call]
Fault(call) == Raise("Exception", [text |-> call])

\* what the function does with an exception of a call it makes
RetryOnFault(exc) == [pc |-> "while", ret |-> Nil]
PidLoopUncaught(exc) == [pc |-> "raised", ret |-> exc]
RlLoopUncaught(exc) == [pc |-> "raised", ret |-> exc]
MarlUncaught(exc) == [pc |-> "raised", ret |-> exc]
ObjectiveUncaught(exc) == [pc |-> "raised", ret |-> exc]

\* pid_loop: single_env.reset() raises
PidLoopResetRaises ==
    /\ prog = "pid_loop" /\ pc = "reset"
    /\ controller' = PIDController(DefaultKp, DefaultKi, DefaultKd, DefaultMaxRate)
    /\ log' = Append(log, FaultCall("reset"))
    /\ pc' = PidLoopUncaught(Fault("reset")).pc
    /\ ret' = PidLoopUncaught(Fault("reset")).ret
    /\ UNCHANGED <<prog, arg, env, obs, done>>

\* pid_loop: controller.update(...) raises, its arguments included
PidLoopUpdateRaises ==
    /\ prog = "pid_loop" /\ pc = "while" /\ ~done
    /\ log' = Append(log, FaultCall("update"))
    /\ pc' = PidLoopUncaught(Fault("update")).pc
    /\ ret' = PidLoopUncaught(Fault("update")).ret
    /\ UNCHANGED <<prog, arg, controller, env, obs, done>>

\* pid_loop: single_env.step(action) raises
PidLoopStepRaises ==
    /\ prog = "pid_loop" /\ pc = "while" /\ ~done
    /\ LET measurement == obs.power
           setpoint == ProfileAt(env.profile, env.time + 1)
           action == UpdateResult(controller, measurement, setpoint)
       IN  /\ controller' = UpdateSelf(controller, measurement, setpoint)
           /\ log' = log \o <<UpdateCall(measurement, setpoint, action),
                              FaultCall("step")>>
    /\ pc' = PidLoopUncaught(Fault("step")).pc
    /\ ret' = PidLoopUncaught(Fault("step")).ret
    /\ UNCHANGED <<prog, arg, env, obs, done>>

\* rl_control_loop: env.reset() raises
RlLoopResetRaises ==
    /\ prog = "rl_control_loop" /\ pc = "reset"
    /\ log' = Append(log, FaultCall("reset"))
    /\ pc' = RlLoopUncaught(Fault("reset")).pc
    /\ ret' = RlLoopUncaught(Fault("reset")).ret
    /\ UNCHANGED <<prog, arg, controller, env, obs, done>>

\* rl_control_loop: model.predict(...) raises
RlLoopPredictRaises ==
    /\ prog = "rl_control_loop" /\ pc = "while" /\ ~done
    /\ log' = Append(log, FaultCall("predict"))
    /\ pc' = RlLoopUncaught(Fault("predict")).pc
    /\ ret' = RlLoopUncaught(Fault("predict")).ret
    /\ UNCHANGED <<prog, arg, controller, env, obs, done>>

\* rl_control_loop: env.step(action) raises
RlLoopStepRaises ==
    /\ prog = "rl_control_loop" /\ pc = "while" /\ ~done
    /\ \E action \in PolicyActions :
          log' = log \o <<PredictCall(RlPredictKwargs, action), FaultCall("step")>>
    /\ pc' = RlLoopUncaught(Fault("step")).pc
    /\ ret' = RlLoopUncaught(Fault("step")).ret
    /\ UNCHANGED <<prog, arg, controller, env, obs, done>>

\* marl_control_loop: env.reset() raises
MarlResetRaises ==
    /\ prog = "marl_control_loop" /\ pc = "reset"
    /\ log' = Append(log, FaultCall("reset"))
    /\ pc' = MarlUncaught(Fault("reset")).pc
    /\ ret' = MarlUncaught(Fault("reset")).ret
    /\ UNCHANGED <<prog, arg, controller, env, obs, done>>

\* marl_control_loop: model.predict(...) raises on a turn that does not break
MarlPredictRaises ==
    /\ prog = "marl_control_loop" /\ pc = "for"
    /\ LET agent == env.agent_selection
           last == env.flags[agent]
       IN  /\ ~MarlBreak(last.terminated, last.truncated)
           /\ log' = log \o <<LastCall(agent, last), FaultCall("predict")>>
    /\ pc' = MarlUncaught(Fault("predict")).pc
    /\ ret' = MarlUncaught(Fault("predict")).ret
    /\ UNCHANGED <<prog, arg, controller, env, obs, done>>

\* marl_control_loop: env.step(action) raises on a turn that does not break
MarlStepRaises ==
    /\ prog = "marl_control_loop" /\ pc = "for"
    /\ LET agent == env.agent_selection
           last == env.flags[agent]
       IN  /\ ~MarlBreak(last.terminated, last.truncated)
           /\ \E action \in PolicyActions :
                 log' = log \o <<LastCall(agent, last),
                                 PredictCall(MarlPredictKwargs, action),
                                 FaultCall("step")>>
    /\ pc' = MarlUncaught(Fault("step")).pc
    /\ ret' = MarlUncaught(Fault("step")).ret
    /\ UNCHANGED <<prog, arg, controller, env, obs, done>>

\* pid_objective: holos_env.reset() raises
ObjectiveResetRaises ==
    /\ prog = "pid_objective" /\ pc = "reset"
    /\ controller' = PIDController(arg.params[1], arg.params[2], arg.params[3], DefaultMaxRate)
    /\ log' = Append(log, FaultCall("reset"))
    /\ pc' = ObjectiveUncaught(Fault("reset")).pc
    /\ ret' = ObjectiveUncaught(Fault("reset")).ret
    /\ UNCHANGED <<prog, arg, env, obs, done>>

\* pid_objective: controller.update(...) raises, its arguments included
ObjectiveUpdateRaises ==
    /\ prog = "pid_objective" /\ pc = "while" /\ ~done
    /\ log' = Append(log, FaultCall("update"))
    /\ pc' = ObjectiveUncaught(Fault("update")).pc
    /\ ret' = ObjectiveUncaught(Fault("update")).ret
    /\ UNCHANGED <<prog, arg, controller, env, obs, done>>

\* pid_objective: holos_env.step(action) raises
ObjectiveStepRaises ==
    /\ prog = "pid_objective" /\ pc = "while" /\ ~done
    /\ LET measurement == obs.power
           setpoint == ProfileAt(env.profile, env.time + 1)
           action == UpdateResult(controller, measurement, setpoint)
       IN  /\ controller' = UpdateSelf(controller, measurement, setpoint)
           /\ log' = log \o <<UpdateCall(measurement, setpoint, action),
                              FaultCall("step")>>
    /\ pc' = ObjectiveUncaught(Fault("step")).pc
    /\ ret' = ObjectiveUncaught(Fault("step")).ret
    /\ UNCHANGED <<prog, arg, env, obs, done>>

NextLoops ==
    \/ PidLoopReset \/ PidLoopIter \/ PidLoopRender
    \/ RlLoopReset \/ RlLoopIter \/ RlLoopRender
    \/ MarlReset \/ MarlTurn \/ MarlRender
    \/ ObjectiveReset \/ ObjectiveIter \/ ObjectiveFinish \/ ObjectiveCall
    \/ PidLoopResetRaises \/ PidLoopUpdateRaises \/ PidLoopStepRaises
    \/ RlLoopResetRaises \/ RlLoopPredictRaises \/ RlLoopStepRaises
    \/ MarlResetRaises \/ MarlPredictRaises \/ MarlStepRaises
    \/ ObjectiveResetRaises \/ ObjectiveUpdateRaises \/ ObjectiveStepRaises

SpecLoops == InitLoops /\ [][NextLoops]_vars


(***************************************************************************)
(* C2. marl_control_loop: when the first agent visited after reset reports *)
(* terminated on turn 1, the loop exits and predict and env.step are never *)
(* called.                                                                 *)
(***************************************************************************)
C2_FirstAgentTerminated ==
    (/\ prog = "marl_control_loop"
     /\ Len(log) >= 2
     /\ log[2].op = "last"
     /\ log[2].terminated)
    => /\ pc \in {"render", "returned"}
       /\ Calls("predict") = {}
       /\ Calls("step") = {}

\* the loop has returned after a first turn that reported terminated only
C2_Witness ==
    /\ prog = "marl_control_loop"
    /\ pc = "returned"
    /\ log = <<ResetCall,
               [op |-> "last", agent |-> 1, terminated |-> TRUE, truncated |-> FALSE],
               RenderCall>>

(***************************************************************************)
(* C3. pid_objective: a step whose observation has power > 1.2 (also one   *)
(* that reports terminated or truncated) is the last call the objective    *)
(* makes, and the objective has returned 1000 x that power.                *)
(***************************************************************************)
C3_TripReturnsPenalty ==
    prog = "pid_objective" =>
        \A k \in Calls("step") :
            log[k].power > 120 =>
                /\ k = Len(log)
                /\ pc = "returned"
                /\ ret = Return(1000 * log[k].power)

\* a trip at the second step or later, on a step that also reports terminated
C3_Witness ==
    /\ prog = "pid_objective"
    /\ pc = "returned"
    /\ Cardinality(Calls("step")) >= 2
    /\ log[Len(log)].op = "step"
    /\ log[Len(log)].power = 130
    /\ log[Len(log)].terminated
    /\ ret = Return(130000)

(***************************************************************************)
(* C4. pid_objective: while no step has observed power > 1.2 the objective *)
(* keeps stepping until a step reports terminated or truncated, then calls *)
(* env.render once, then calc_metrics, and returns its integral absolute   *)
(* error of the environment's history.                                     *)
(***************************************************************************)
C4_NoTrip == \A k \in Calls("step") : log[k].power <= 120

C4_NoTripReturnsIae ==
    (prog = "pid_objective" /\ C4_NoTrip) =>
        /\ \A k \in Calls("step") : StepDone(k) => k = LastStep
        /\ pc = "while" => Calls("render") = {} /\ Calls("calc_metrics") = {}
        /\ (pc = "while" /\ Calls("step") # {}) => done = StepDone(LastStep)
        /\ pc = "returned" =>
              /\ Calls("step") # {} /\ StepDone(LastStep)
              /\ Calls("render") = {LastStep + 1}
              /\ Calls("calc_metrics") = {LastStep + 2}
              /\ Len(log) = LastStep + 2
              /\ ret = Return(SumSeq([i \in DOMAIN env.history |->
                            Abs(env.history[i].desired_power
                                  - env.history[i].actual_power)]))

\* an episode of two steps or more, one of them at exactly 1.2, a positive error
C4_Witness ==
    /\ prog = "pid_objective"
    /\ pc = "returned"
    /\ C4_NoTrip
    /\ Cardinality(Calls("step")) >= 2
    /\ \E k \in Calls("step") : log[k].power = 120
    /\ ret.kind = "return" /\ ret.value > 0

(***************************************************************************)
(* C5. pid_loop and rl_control_loop: one reset, first; steps until one     *)
(* reports terminated or truncated and none after it; env.render exactly   *)
(* once, after that last step, and only when the episode is complete.      *)
(***************************************************************************)
C5_SingleAgentEpisode ==
    prog \in {"pid_loop", "rl_control_loop"} =>
        /\ (log # <<>> /\ log[1] # FaultCall("reset")) => Calls("reset") = {1}
        /\ \A k \in Calls("step") : StepDone(k) => k = LastStep /\ Calls("raise") = {}
        /\ (pc = "while" /\ Calls("step") # {}) => done = StepDone(LastStep)
        /\ pc # "returned" => Calls("render") = {}
        /\ pc = "returned" =>
              /\ Calls("step") # {} /\ StepDone(LastStep)
              /\ Calls("render") = {LastStep + 1}
              /\ Len(log) = LastStep + 1

\* a completed pid_loop episode of two steps or more that ended on a truncation
C5_Witness ==
    /\ prog = "pid_loop"
    /\ pc = "returned"
    /\ Cardinality(Calls("step")) >= 2
    /\ log[LastStep].truncated /\ ~log[LastStep].terminated
    /\ log[Len(log)] = RenderCall

(***************************************************************************)
(* C10. Every predict call of rl_control_loop and marl_control_loop passes *)
(* deterministic=True.                                                     *)
(***************************************************************************)
C10_PredictDeterministic ==
    prog \in {"rl_control_loop", "marl_control_loop"} =>
        \A i \in Calls("predict") : log[i].deterministic = TRUE

\* a finished rl_control_loop episode with two predict calls or more
C10_Witness ==
    /\ prog = "rl_control_loop"
    /\ pc = "returned"
    /\ Cardinality(Calls("predict")) >= 2

(***************************************************************************)
(* C14. pid_loop, rl_control_loop, marl_control_loop: when env.reset,      *)
(* env.step, controller.update or model.predict raises, the loop has ended *)
(* with that exception: the raising call is the last call the loop makes   *)
(* (no retry, no further step) and env.render is never called.             *)
(***************************************************************************)
C14_FaultPropagates ==
    prog \in {"pid_loop", "rl_control_loop", "marl_control_loop"} =>
        /\ \A i \in Calls("raise") :
              /\ i = Len(log)
              /\ pc = "raised"
              /\ ret = Fault(log[i].call)
              /\ Calls("render") = {}
        /\ pc = "raised" => Calls("raise") = {Len(log)}

\* env.step raises in pid_loop after a step that returned
C14_Witness ==
    /\ prog = "pid_loop"
    /\ pc = "raised"
    /\ Calls("step") # {}
    /\ log[Len(log)] = FaultCall("step")
    /\ ret = Fault("step")

(***************************************************************************)
(* C15. marl_control_loop: the first turn whose last() reports terminated  *)
(* or truncated ends the episode: no predict and no env.step follows it,   *)
(* for any agent, and env.render is called exactly once, right after it;   *)
(* every earlier turn makes exactly one predict and one env.step, in that  *)
(* order, the step with the action predict returned (unless one of the two *)
(* calls raises, which ends the loop).                                     *)
(***************************************************************************)
C15_Terminal(i) == log[i].terminated \/ log[i].truncated

C15_FirstTerminalTurnEnds ==
    prog = "marl_control_loop" =>
        /\ \A i \in Calls("last") :
              IF C15_Terminal(i)
              THEN /\ \A j \in Calls("last") : j <= i
                   /\ \A j \in Calls("predict") \cup Calls("step") \cup Calls("raise") : j < i
                   /\ pc \in {"render", "returned"}
                   /\ pc = "render" => Len(log) = i /\ Calls("render") = {}
                   /\ pc = "returned" => Len(log) = i + 1 /\ Calls("render") = {i + 1}
              ELSE /\ Len(log) >= i + 1
                   /\ \/ /\ log[i + 1] = FaultCall("predict")
                         /\ Len(log) = i + 1
                      \/ /\ log[i + 1].op = "predict"
                         /\ Len(log) >= i + 2
                         /\ \/ log[i + 2] = FaultCall("step") /\ Len(log) = i + 2
                            \/ /\ log[i + 2] = AecStepCall(log[i + 1].action)
                               /\ Len(log) >= i + 3 => log[i + 3].op = "last"
                               /\ Len(log) = i + 2 => pc = "for"
        /\ \A j \in Calls("predict") :
              j - 1 \in Calls("last") /\ ~C15_Terminal(j - 1)
        /\ \A j \in Calls("step") : j - 1 \in Calls("predict")
        /\ Calls("render") # {} => \E i \in Calls("last") : C15_Terminal(i)
        /\ pc \in {"render", "returned"} => \E i \in Calls("last") : C15_Terminal(i)

\* the episode was ended on the second agent's turn, after a full turn of the
\* first agent, while the first agent is not itself terminal
C15_Witness ==
    /\ prog = "marl_control_loop"
    /\ pc = "returned"
    /\ Calls("step") # {}
    /\ \E i \in Calls("last") : C15_Terminal(i) /\ log[i].agent = 2
    /\ ~(env.flags[1].terminated \/ env.flags[1].truncated)
    /\ log[Len(log)] = RenderCall

(***************************************************************************)
(* C18. pid_loop and pid_objective: every env.step is directly preceded by *)
(* exactly one controller.update, whose result is the step's action, and   *)
(* update is called nowhere else; the controller is a new instance         *)
(* (integral 0, previous error 0) when the episode starts; the loop body   *)
(* runs before done is ever tested true, so an episode that returns has    *)
(* made at least one update and one step.                                  *)
(***************************************************************************)
C18_Gains ==
    IF prog = "pid_objective" THEN arg.params ELSE <<DefaultKp, DefaultKi, DefaultKd>>

C18_OneUpdatePerStep ==
    prog \in {"pid_loop", "pid_objective"} =>
        /\ \A k \in Calls("step") :
              /\ k - 1 \in Calls("update")
              /\ log[k].action = log[k - 1].command_sat
        /\ \A u \in Calls("update") :
              /\ u > 1 /\ log[u - 1].op \in {"reset", "step"}
              /\ Len(log) >= u + 1
              /\ log[u + 1].op = "step" \/ log[u + 1] = FaultCall("step")
        /\ \A i \in Calls("render") \cup Calls("calc_metrics") :
              log[i - 1].op \in {"step", "render"}
        /\ (pc = "while" /\ log = <<ResetCall>>) =>
              /\ ~done
              /\ controller = PIDController(C18_Gains[1], C18_Gains[2], C18_Gains[3],
                                            DefaultMaxRate)
              /\ controller.integral = 0 /\ controller.err_prev = 0
        /\ pc = "returned" =>
              /\ Calls("update") # {} /\ Calls("step") # {}
              /\ Cardinality(Calls("update")) = Cardinality(Calls("step"))
              /\ log[2].op = "update" /\ log[3].op = "step"

\* a pid_loop episode of three steps has returned
C18_Witness ==
    /\ prog = "pid_loop"
    /\ pc = "returned"
    /\ Cardinality(Calls("step")) = 3
    /\ Cardinality(Calls("update")) = 3
    /\ controller.err_prev # 0

RECURSIVE C19_ControllerAfter(_)
\* a new controller of this call's params after the updates among log[1..n]
C19_ControllerAfter(n) ==
    IF n = 0
    THEN PIDController(arg.params[1], arg.params[2], arg.params[3], DefaultMaxRate)
    ELSE IF log[n].op = "update"
         THEN UpdateSelf(C19_ControllerAfter(n - 1), log[n].measurement, log[n].setpoint)
         ELSE C19_ControllerAfter(n - 1)

\* the steps among log[1..n]
C19_StepsBefore(n) == {k \in Calls("step") : k < n}

\* the value of this call by its own observations: the penalty of a trip, or
\* the absolute error summed over the initial observation and every step
C19_Value ==
    IF Calls("render") = {}
    THEN FakeIae(log[Len(log)].power)
    ELSE Abs(ProfileAt(env.profile, 0) - env.history[1].actual_power)
           + SumSeq([i \in DOMAIN log |->
                       IF log[i].op = "step"
                       THEN Abs(ProfileAt(env.profile, Cardinality(C19_StepsBefore(i)) + 1)
                                  - log[i].power)
                       ELSE 0])

(***************************************************************************)
(* C19. pid_objective, called again and again by minimize on one           *)
(* environment instance: after its reset every call holds a controller     *)
(* that is a new PIDController(params) fed this call's updates only, the   *)
(* environment's clock and history hold this call's steps only, and the    *)
(* value returned is the one this call's params and observations give,     *)
(* whatever call came before it and however that call ended.               *)
(***************************************************************************)
C19_CallsAreIndependent ==
    (prog = "pid_objective" /\ Calls("reset") # {}) =>
        /\ Calls("reset") = {1}
        /\ controller = C19_ControllerAfter(Len(log))
        /\ \A u \in Calls("update") :
              /\ log[u].command_sat =
                    UpdateResult(C19_ControllerAfter(u - 1), log[u].measurement,
                                 log[u].setpoint)
              /\ log[u].setpoint =
                    ProfileAt(env.profile, Cardinality(C19_StepsBefore(u)) + 1)
              /\ log[u].measurement =
                    IF u = 2 THEN env.history[1].actual_power ELSE log[u - 1].power
        /\ env.time = Cardinality(Calls("step"))
        /\ Len(env.history) = 1 + Cardinality(Calls("step"))
        /\ \A k \in Calls("step") :
              env.history[Cardinality(C19_StepsBefore(k)) + 2].actual_power = log[k].power
        /\ pc = "returned" => ret = Return(C19_Value)

\* a second call that ran a whole episode with an integral gain, after a call
\* that ended by the early return of a trip
C19_Witness ==
    /\ prog = "pid_objective"
    /\ arg.call = 2 /\ arg.before = "trip"
    /\ arg.params[2] # 0
    /\ pc = "returned"
    /\ Calls("render") # {}
    /\ Cardinality(Calls("step")) >= 2
    /\ controller.integral # 0
    /\ ret.kind = "return" /\ ret.value > 0

(***************************************************************************)
(* find_latest_file.  A name and a pattern are sequences of characters; a  *)
(* folder is whether it exists and its entries in the order glob yields    *)
(* them, each with its modification time and whether it is a regular file. *)
(***************************************************************************)
MaxEntries == 3      \* entries of a folder
MaxMtime == 2        \* distinct modification times

Names == {<<"a", ".", "z">>, <<"b", ".", "z">>, <<"h", "1", ".", "c">>, <<"m">>}
Patterns == {<<"*">>, <<"*", ".", "z">>, <<"h", "*", ".", "c">>}

\* the match of one name against a glob pattern
RECURSIVE Fnmatch(_, _)
Fnmatch(pattern, name) ==
    IF pattern = <<>>
    THEN name = <<>>
    ELSE IF Head(pattern) = "*"
    THEN \/ Fnmatch(Tail(pattern), name)
         \/ name # <<>> /\ Fnmatch(pattern, Tail(name))
    ELSE /\ name # <<>>
         /\ Head(name) = Head(pattern)
         /\ Fnmatch(Tail(pattern), Tail(name))

\* folder_path.glob(pattern)
RECURSIVE Glob(_, _)
Glob(entries, pattern) ==
    IF entries = <<>>
    THEN <<>>
    ELSE IF Fnmatch(pattern, Head(entries).name)
    THEN <<Head(entries)>> \o Glob(Tail(entries), pattern)
    ELSE Glob(Tail(entries), pattern)

\* e put into a sequence sorted by decreasing mtime, before its equals
RECURSIVE InsertByMtime(_, _)
InsertByMtime(e, sorted) ==
    IF sorted = <<>>
    THEN <<e>>
    ELSE IF Head(sorted).mtime > e.mtime
    THEN <<Head(sorted)>> \o InsertByMtime(e, Tail(sorted))
    ELSE <<e>> \o sorted

\* sorted(..., key=os.path.getmtime, reverse=True): stable, equals keep their order
RECURSIVE SortedOldestFirst(_)
SortedOldestFirst(entries) ==
    IF entries = <<>>
    THEN <<>>
    ELSE LET rest == SortedOldestFirst(Tail(entries))
             older == SelectSeq(rest, LAMBDA e : e.mtime < Head(entries).mtime)
             others == SelectSeq(rest, LAMBDA e : e.mtime >= Head(entries).mtime)
         IN  older \o <<Head(entries)>> \o others
RECURSIVE SortedLatestFirst(_)
SortedLatestFirst(entries) ==
    IF entries = <<>>
    THEN <<>>
    ELSE InsertByMtime(Head(entries), SortedLatestFirst(Tail(entries)))

NoMessage == [text |-> ""]

\* find_latest_file(folder_path, pattern)
FindLatestFileUnchecked(folder, pattern) ==
    IF ~folder.exists
    THEN Raise("AssertionError", NoMessage)
    ELSE IF Glob(folder.entries, pattern) = <<>>
    THEN Raise("AssertionError",
               [text |-> "No files match pattern '{pattern}' in folder '{folder_path}'",
                pattern |-> pattern, folder_path |-> folder.path])
    ELSE Return(SortedLatestFirst(Glob(folder.entries, pattern))[1].name)
FindLatestFile(folder, pattern) ==
    IF ~folder.exists
    THEN Raise("AssertionError", NoMessage)
    ELSE IF Glob(folder.entries, pattern) = <<>>
    THEN Raise("AssertionError",
               [text |-> "No files match pattern '{pattern}' in folder '{folder_path}'",
                pattern |-> pattern, folder_path |-> folder.path])
    ELSE LET latest_file == SortedLatestFirst(Glob(folder.entries, pattern))[1]
         IN  IF ~latest_file.is_file
             THEN Raise("AssertionError",
                        [text |-> "Latest file '{latest_file}' is not a file",
                         latest_file |-> latest_file.name])
             ELSE Return(latest_file.name)

Entry(name, mtime, is_file) == [name |-> name, mtime |-> mtime, is_file |-> is_file]
EntrySet == {Entry(name, mtime, is_file) :
                name \in Names, mtime \in 1..MaxMtime, is_file \in BOOLEAN}

\* the listings of at most n entries, no name twice
RECURSIVE Listings(_)
Listings(n) ==
    IF n = 0
    THEN {<<>>}
    ELSE LET shorter == Listings(n - 1)
         IN  shorter \cup
             {Append(l, e) : l \in {x \in shorter : Len(x) = n - 1}, e \in EntrySet}

DistinctNames(l) == \A i, j \in DOMAIN l : i # j => l[i].name # l[j].name

Folders ==
    {[path |-> "runs", exists |-> FALSE, entries |-> <<>>]} \cup
    {[path |-> "runs", exists |-> TRUE, entries |-> l] :
        l \in {x \in Listings(MaxEntries) : DistinctNames(x)}}

InitFiles ==
    /\ prog = "find_latest_file"
    /\ pc = "call"
    /\ arg \in [folder_path : Folders, pattern : Patterns]
    /\ controller = Nil
    /\ env = Nil
    /\ obs = Nil
    /\ done = FALSE
    /\ log = <<>>
    /\ ret = Nil

\* one call find_latest_file(folder_path, pattern)
FindLatestFileCall ==
    /\ prog = "find_latest_file" /\ pc = "call"
    /\ ret' = FindLatestFile(arg.folder_path, arg.pattern)
    /\ pc' = "returned"
    /\ UNCHANGED <<prog, arg, controller, env, obs, done, log>>

NextFiles == FindLatestFileCall

SpecFiles == InitFiles /\ [][NextFiles]_vars

(***************************************************************************)
(* C6. find_latest_file fails when no entry matches the pattern; with      *)
(* matches it takes the one with the greatest modification time (on equal  *)
(* times the one glob yields first), returns it when it is a regular file  *)
(* and fails when it is not.                                               *)
(***************************************************************************)
C6_Entries == arg.folder_path.entries
C6_Matches == {i \in DOMAIN C6_Entries : Fnmatch(arg.pattern, C6_Entries[i].name)}
C6_Latest ==
    CHOOSE i \in C6_Matches :
        /\ \A j \in C6_Matches : C6_Entries[j].mtime <= C6_Entries[i].mtime
        /\ \A j \in C6_Matches : C6_Entries[j].mtime = C6_Entries[i].mtime => i <= j

C6_LatestRegularFile ==
    (prog = "find_latest_file" /\ pc = "returned") =>
        /\ C6_Matches = {} => ret.kind = "raise"
        /\ C6_Matches # {} =>
              IF C6_Entries[C6_Latest].is_file
              THEN ret = Return(C6_Entries[C6_Latest].name)
              ELSE ret.kind = "raise"

\* the claim as stated: with matches, the one with the greatest time is returned
C6_AsStated ==
    (prog = "find_latest_file" /\ pc = "returned") =>
        /\ C6_Matches = {} => ret.kind = "raise"
        /\ C6_Matches # {} =>
              /\ ret.kind = "return"
              /\ \E i \in C6_Matches :
                    /\ C6_Entries[i].name = ret.value
                    /\ \A j \in C6_Matches : C6_Entries[j].mtime <= C6_Entries[i].mtime

\* two matches, the later one a regular file that glob yields last, is returned
\* although an entry that does not match is as recent
C6_Witness ==
    /\ prog = "find_latest_file" /\ pc = "returned"
    /\ Cardinality(C6_Matches) = 2
    /\ Len(C6_Entries) = 3
    /\ C6_Latest = 3
    /\ \E i \in DOMAIN C6_Entries \ C6_Matches :
          C6_Entries[i].mtime >= C6_Entries[C6_Latest].mtime
    /\ \E i \in C6_Matches : C6_Entries[i].mtime < C6_Entries[C6_Latest].mtime
    /\ ret = Return(C6_Entries[3].name)

(***************************************************************************)
(* C11. What find_latest_file returns is a regular file: when the most     *)
(* recently modified match is a directory the call fails.                  *)
(***************************************************************************)
C11_ReturnsRegularFile ==
    (prog = "find_latest_file" /\ pc = "returned") =>
        /\ ret.kind = "return" =>
              \E i \in DOMAIN C6_Entries :
                  C6_Entries[i].name = ret.value /\ C6_Entries[i].is_file
        /\ (C6_Matches # {} /\ ~C6_Entries[C6_Latest].is_file) => ret.kind = "raise"

\* the latest match is a directory, an older match is a regular file: no return
C11_Witness ==
    /\ prog = "find_latest_file" /\ pc = "returned"
    /\ C6_Matches # {}
    /\ ~C6_Entries[C6_Latest].is_file
    /\ \E i \in C6_Matches :
          C6_Entries[i].is_file /\ C6_Entries[i].mtime < C6_Entries[C6_Latest].mtime
    /\ ret.kind = "raise" /\ ret.exc = "AssertionError"

(***************************************************************************)
(* C12. Every failure of find_latest_file (folder missing, no match,       *)
(* latest match not a file) and of load_history (path missing, first       *)
(* desired_power not 1, first drum_8 not 77.8) carries a message, which    *)
(* names the folder, the pattern, the file or the expected value.          *)
(***************************************************************************)
C12_FailuresAreNamed ==
    /\ (prog = "find_latest_file" /\ pc = "returned" /\ ret.kind = "raise") =>
          /\ ret.message.text # ""
          /\ ~arg.folder_path.exists =>
                /\ "folder_path" \in DOMAIN ret.message
                /\ ret.message.folder_path = arg.folder_path.path
          /\ (arg.folder_path.exists /\ C6_Matches = {}) =>
                /\ DOMAIN ret.message = {"text", "pattern", "folder_path"}
                /\ ret.message.pattern = arg.pattern
                /\ ret.message.folder_path = arg.folder_path.path
          /\ C6_Matches # {} =>
                /\ DOMAIN ret.message = {"text", "latest_file"}
                /\ ret.message.latest_file = C6_Entries[C6_Latest].name
    /\ (/\ prog = "load_history" /\ pc = "returned" /\ ret.kind = "raise"
        /\ ~arg.exists \/ arg.table # <<>>)
       => ret.message.text # ""

(***************************************************************************)
(* load_history and calc_metrics on their own: the input is a table.       *)
(***************************************************************************)
MaxRows == 3         \* rows of a table

Times == {0, 1, 2}
PowerPairs == {<<100, 100>>, <<100, 90>>, <<90, 100>>}
DrumRows == {SteadyDrums, [SteadyDrums EXCEPT ![8] = 780],
             [SteadyDrums EXCEPT ![1] = 770]}
\* a row is off the steady one in its powers or in its drums
RowSet == {Row(time, powers[1], powers[2], SteadyDrums) :
              time \in Times, powers \in PowerPairs}
          \cup {Row(time, SteadyPower, SteadyPower, drums) :
                   time \in Times, drums \in DrumRows}

\* the tables of at most n rows
RECURSIVE Tables(_)
Tables(n) ==
    IF n = 0
    THEN {<<>>}
    ELSE LET shorter == Tables(n - 1)
         IN  shorter \cup
             {Append(t, r) : t \in {x \in shorter : Len(x) = n - 1}, r \in RowSet}

\* load_history(history_path); the file holds the table pd.read_csv reads
LoadHistoryNoDrumCheck(file) ==
    IF ~file.exists
    THEN Raise("AssertionError", NoMessage)
    ELSE IF file.table = <<>>
    THEN Raise("KeyError", [text |-> "0"])
    ELSE IF file.table[1].desired_power # SteadyPower
    THEN Raise("AssertionError",
               [text |-> "steady state initial power value should be 100"])
    ELSE Return(file.table)
LoadHistory(file) ==
    IF ~file.exists
    THEN Raise("AssertionError", NoMessage)
    ELSE LET history == file.table
         IN  IF history = <<>>
             THEN Raise("KeyError", [text |-> "0"])
             ELSE IF history[1].desired_power # SteadyPower
             THEN Raise("AssertionError",
                        [text |-> "steady state initial power value should be 100"])
             ELSE IF history[1].drums[NumDrums] # SteadyDrum
             THEN Raise("AssertionError",
                        [text |-> "steady state initial drum angle should be 77.8"])
             ELSE Return(history)

InitTables ==
    /\ prog \in {"load_history", "calc_metrics"}
    /\ pc = "call"
    /\ arg \in IF prog = "load_history"
               THEN {[exists |-> FALSE, table |-> <<>>]} \cup
                    {[exists |-> TRUE, table |-> t] : t \in Tables(MaxRows)}
               ELSE {[history |-> t] : t \in Tables(MaxRows)}
    /\ controller = Nil
    /\ env = Nil
    /\ obs = Nil
    /\ done = FALSE
    /\ log = <<>>
    /\ ret = Nil

\* one call load_history(history_path)
LoadHistoryCall ==
    /\ prog = "load_history" /\ pc = "call"
    /\ ret' = LoadHistory(arg)
    /\ pc' = "returned"
    /\ UNCHANGED <<prog, arg, controller, env, obs, done, log>>

\* one call calc_metrics(history)
CalcMetricsCall ==
    /\ prog = "calc_metrics" /\ pc = "call"
    /\ ret' = CalcMetrics(arg.history)
    /\ pc' = "returned"
    /\ UNCHANGED <<prog, arg, controller, env, obs, done, log>>

NextTables == LoadHistoryCall \/ CalcMetricsCall

SpecTables == InitTables /\ [][NextTables]_vars

(***************************************************************************)
(* C7. load_history fails on every table whose first desired_power is not  *)
(* 1 or whose first drum_8 is not 77.8, whatever the other rows hold, and  *)
(* what it returns is the table, both checks holding.                      *)
(***************************************************************************)
C7_RejectsUnsteadyStart ==
    (prog = "load_history" /\ pc = "returned" /\ arg.exists /\ arg.table # <<>>) =>
        /\ (arg.table[1].desired_power # 100 \/ arg.table[1].drums[8] # 778)
              => ret.kind = "raise"
        /\ ret.kind = "return" =>
              /\ ret.value = arg.table
              /\ arg.table[1].desired_power = 100
              /\ arg.table[1].drums[8] = 778

\* three rows, all steady but for drum_8 of the first row: rejected
C7_Witness ==
    /\ prog = "load_history" /\ pc = "returned"
    /\ arg.exists
    /\ Len(arg.table) = 3
    /\ arg.table[1].desired_power = 100
    /\ arg.table[1].drums[8] = 780
    /\ \A i \in 2..3 : arg.table[i].desired_power = 100 /\ arg.table[i].drums[8] = 778
    /\ \A i \in 1..3 : arg.table[i].time = i - 1
    /\ ret.kind = "raise" /\ ret.exc = "AssertionError"

(***************************************************************************)
(* C8. calc_metrics fails whenever the first two time values differ by     *)
(* anything other than 1.                                                  *)
(***************************************************************************)
C8_RejectsNonUnitTimestep ==
    (/\ prog = "calc_metrics" /\ pc = "returned"
     /\ Len(arg.history) >= 2
     /\ arg.history[2].time - arg.history[1].time # 1)
    => ret.kind = "raise"

\* times 0, 2, ...: a step of 2 is refused by the assertion
C8_Witness ==
    /\ prog = "calc_metrics" /\ pc = "returned"
    /\ Len(arg.history) = 3
    /\ arg.history[1].time = 0 /\ arg.history[2].time = 2
    /\ ret.kind = "raise" /\ ret.exc = "AssertionError"

(***************************************************************************)
(* C13. calc_metrics returns mean_absolute_error = the mean over the rows  *)
(* of |desired_power - actual_power| and integral_absolute_error = their   *)
(* sum; both are 0 when the two columns are identical.                     *)
(***************************************************************************)
RECURSIVE C13_SumAbsError(_, _)
C13_SumAbsError(t, n) ==
    IF n = 0
    THEN 0
    ELSE C13_SumAbsError(t, n - 1)
           + (IF t[n].desired_power >= t[n].actual_power
              THEN t[n].desired_power - t[n].actual_power
              ELSE t[n].actual_power - t[n].desired_power)

C13_MeanAndIntegralError ==
    (prog = "calc_metrics" /\ pc = "returned" /\ ret.kind = "return") =>
        LET n == Len(arg.history)
            total == C13_SumAbsError(arg.history, n)
            mean == ret.value.mean_absolute_error
        IN  /\ ret.value.integral_absolute_error = total
            /\ mean.den > 0
            /\ mean.num * n = total * mean.den
            /\ (\A i \in 1..n : arg.history[i].desired_power = arg.history[i].actual_power)
                  => ret.value.integral_absolute_error = 0 /\ mean.num = 0

\* three rows with errors 0, +10 and -10: the sum is 20, the mean 20/3
C13_Witness ==
    /\ prog = "calc_metrics" /\ pc = "returned"
    /\ Len(arg.history) = 3
    /\ arg.history[1].desired_power = arg.history[1].actual_power
    /\ arg.history[2].desired_power - arg.history[2].actual_power = 10
    /\ arg.history[3].desired_power - arg.history[3].actual_power = -10
    /\ ret.kind = "return"
    /\ ret.value.integral_absolute_error = 20
    /\ ret.value.mean_absolute_error = [num |-> 20, den |-> 3]

(***************************************************************************)
(* C20. calc_metrics returns control_effort = the sum over all pairs of    *)
(* consecutive rows and all 8 drums of |drum_j[i+1] - drum_j[i]|, which is *)
(* 0 exactly when no drum angle changes between two consecutive rows; the  *)
(* call leaves the history table as it was.                                *)
(***************************************************************************)
C20_Cells(t) == {<<i, j>> : i \in 1..(Len(t) - 1), j \in 1..8}

RECURSIVE C20_SumOver(_, _)
C20_SumOver(cells, t) ==
    IF cells = {}
    THEN 0
    ELSE LET c == CHOOSE x \in cells : TRUE
             delta == t[c[1] + 1].drums[c[2]] - t[c[1]].drums[c[2]]
         IN  (IF delta < 0 THEN -delta ELSE delta) + C20_SumOver(cells \ {c}, t)

C20_EffortIsSum ==
    (prog = "calc_metrics" /\ pc = "returned" /\ ret.kind = "return") =>
        /\ ret.value.control_effort = C20_SumOver(C20_Cells(arg.history), arg.history)
        /\ ret.value.control_effort = 0 <=>
              \A c \in C20_Cells(arg.history) :
                  arg.history[c[1] + 1].drums[c[2]] = arg.history[c[1]].drums[c[2]]

C20_ControlEffort ==
    /\ []C20_EffortIsSum
    /\ [][prog = "calc_metrics" => arg' = arg]_vars

\* drum_8 moves by 2, then drum_8 moves back and drum_1 moves by 8: effort 12
C20_Witness ==
    /\ prog = "calc_metrics" /\ pc = "returned"
    /\ Len(arg.history) = 3
    /\ arg.history[1].drums = SteadyDrums
    /\ arg.history[2].drums = [SteadyDrums EXCEPT ![8] = 780]
    /\ arg.history[3].drums = [SteadyDrums EXCEPT ![1] = 770]
    /\ ret.kind = "return"
    /\ ret.value.control_effort = 12

(***************************************************************************)
(* main.  A dict is a function from its keys; a folder is its name under   *)
(* runs/.  For main, env holds what main runs in: its two configuration    *)
(* dicts and the set of run folders that hold a models/ folder; arg holds  *)
(* the command line.  Trainings are collaborators: a call is logged with   *)
(* the configuration it is handed, and returns or raises.                  *)
(***************************************************************************)
TrainingEpisodeLength == 200
InoculationNoise == 2    \* 0.02, in hundredths

SingleFolder == "single_action_rl"
InnoculatedFolder == "single_action_innoculated"
MultiFolder == "multi_action_rl"
SymmetricFolder == "multi_action_rl_symmetric"
MarlFolder == "marl"
PidFolder == "pid"
RunFolders == {SingleFolder, InnoculatedFolder, MultiFolder, SymmetricFolder, MarlFolder}

TestProfiles == {"longtest", "lowpower", "training", "test"}
DisabledDrums == {0, 1}

\* d[key] = value
DictSet(d, key, value) ==
    [k \in DOMAIN d \cup {key} |-> IF k = key THEN value ELSE d[k]]

\* training_kwargs = {'profile': ..., 'episode_length': 200, 'train_mode': True}
TrainingKwargs ==
    [profile |-> "training", episode_length |-> TrainingEpisodeLength,
     train_mode |-> TRUE]

\* match args.test_profile, and testing_kwargs
TestingKwargs(args) ==
    [profile |-> IF args.test_profile \in {"longtest", "lowpower", "training"}
                 THEN args.test_profile ELSE "testing",
     episode_length |-> IF args.test_profile = "longtest" THEN 20000 ELSE 200,
     valid_maskings |-> <<args.disabled_drums>>,
     train_mode |-> FALSE]

TrainCall(trainer, site, env_type, env_kwargs) ==
    [op |-> trainer, site |-> site, env_type |-> env_type, env_kwargs |-> env_kwargs]

InitMain ==
    /\ prog = "main"
    /\ pc = "single"
    /\ arg \in [test_profile : TestProfiles, disabled_drums : DisabledDrums]
    /\ controller = Nil
    /\ \E models \in SUBSET RunFolders :
          env = [training_kwargs |-> TrainingKwargs,
                 testing_kwargs |-> TestingKwargs(arg),
                 models |-> models]
    /\ obs = Nil
    /\ done = FALSE
    /\ log = <<>>
    /\ ret = Nil

\* one training section of main whose models/ folder is missing: the call is
\* made with env_kwargs, training_kwargs being left as kwargs; train_rl and
\* train_marl create the models/ folder
Train(trainer, site, env_type, folder, kwargs, env_kwargs, next) ==
    /\ env' = [env EXCEPT !.training_kwargs = kwargs, !.models = @ \cup {folder}]
    /\ log' = Append(log, TrainCall(trainer, site, env_type, env_kwargs))
    /\ pc' = next
    /\ UNCHANGED <<prog, arg, controller, obs, done, ret>>

\* a section whose models/ folder exists already
Skip(next) ==
    /\ pc' = next
    /\ UNCHANGED <<prog, arg, controller, env, obs, done, log, ret>>

\* training_kwargs['noise'] = 0.02
WithNoise(kwargs) == DictSet(kwargs, "noise", InoculationNoise)

MainSingle ==
    /\ prog = "main" /\ pc = "single"
    /\ IF SingleFolder \notin env.models
       THEN LET kwargs == DictSet(env.training_kwargs, "run_path", SingleFolder)
            IN  Train("train_rl", "single", "HolosSingle", SingleFolder,
                      kwargs, kwargs, "innoculated")
       ELSE Skip("innoculated")

MainInnoculated ==
    /\ prog = "main" /\ pc = "innoculated"
    /\ IF InnoculatedFolder \notin env.models
       THEN LET kwargs == WithNoise(DictSet(env.training_kwargs, "run_path",
                                            InnoculatedFolder))
            IN  Train("train_rl", "innoculated", "HolosSingle", InnoculatedFolder,
                      kwargs, kwargs, "multi")
       ELSE Skip("multi")

MainMulti ==
    /\ prog = "main" /\ pc = "multi"
    /\ IF MultiFolder \notin env.models
       THEN LET kwargs == DictSet(env.training_kwargs, "run_path", MultiFolder)
            IN  Train("train_rl", "multi", "HolosMulti", MultiFolder,
                      kwargs, kwargs, "symmetric")
       ELSE Skip("symmetric")

\* the call is handed the copy {**training_kwargs, 'symmetry_reward': True}
MainSymmetric ==
    /\ prog = "main" /\ pc = "symmetric"
    /\ IF SymmetricFolder \notin env.models
       THEN LET kwargs == DictSet(env.training_kwargs, "run_path", SymmetricFolder)
            IN  Train("train_rl", "symmetric", "HolosMulti", SymmetricFolder,
                      kwargs, DictSet(kwargs, "symmetry_reward", TRUE), "marl")
       ELSE Skip("marl")

MainMarl ==
    /\ prog = "main" /\ pc = "marl"
    /\ IF MarlFolder \notin env.models
       THEN LET kwargs == DictSet(env.training_kwargs, "run_path", MarlFolder)
            IN  Train("train_marl", "marl", "HolosMARL", MarlFolder,
                      kwargs, kwargs, "pid")
       ELSE Skip("pid")

\* training_kwargs['run_path'] = pid_folder;
\* pid_train_history = microutils.test_pid(envs.HolosSingle, training_kwargs):
\* microutils defines no test_pid, the attribute lookup raises before the call
MainPidBenchmark ==
    /\ prog = "main" /\ pc = "pid"
    /\ env' = [env EXCEPT !.training_kwargs = DictSet(@, "run_path", PidFolder)]
    /\ log' = Append(log, FaultCall("microutils.test_pid"))
    /\ pc' = "raised"
    /\ ret' = Raise("AttributeError", [text |-> "test_pid"])
    /\ UNCHANGED <<prog, arg, controller, obs, done>>

NextMain ==
    \/ MainSingle \/ MainInnoculated \/ MainMulti \/ MainSymmetric \/ MainMarl
    \/ MainPidBenchmark

SpecMain == InitMain /\ [][NextMain]_vars

\* the trainings main has called, by position in the log
C21_Trainings == {i \in DOMAIN log : log[i].op \in {"train_rl", "train_marl"}}

C21_OwnFolder(site) ==
    CASE site = "single" -> SingleFolder
      [] site = "innoculated" -> InnoculatedFolder
      [] site = "multi" -> MultiFolder
      [] site = "symmetric" -> SymmetricFolder
      [] site = "marl" -> MarlFolder

(***************************************************************************)
(* C21. main: noise = 0.02 is handed to the inoculated training only.      *)
(* Whatever model folders exist, the configuration of every other training *)
(* and the one named for the PID benchmark on the training profile holds   *)
(* no noise entry, and every consumer's run_path is the folder of its run. *)
(***************************************************************************)
C21_NoiseOnlyForInoculated ==
    prog = "main" =>
        /\ \A i \in C21_Trainings :
              /\ log[i].env_kwargs.run_path = C21_OwnFolder(log[i].site)
              /\ "noise" \in DOMAIN log[i].env_kwargs <=> log[i].site = "innoculated"
        /\ pc = "raised" =>
              /\ env.training_kwargs.run_path = PidFolder
              /\ "noise" \notin DOMAIN env.training_kwargs

====
